---- MODULE Spec2Model ----
(***************************************************************************)
(* Remote content resolution of the OPAC web application                   *)
(* (opac/webapp/main/views.py): fetch_data, normalize_ssm_url, render_html *)
(* and the article_detail / article_detail_pdf views built on them.        *)
(*                                                                         *)
(* Text (addresses, paths) is a sequence of one-character strings, so that *)
(* startswith, concatenation and urlparse are computed, not assumed.       *)
(* Language codes, exception class names and payload names are atoms.      *)
(***************************************************************************)
EXTENDS Integers, Sequences, FiniteSets, TLC

\* Longest list of per-language descriptors (article.htmls, article.pdfs).
MaxDescriptors == 2

\* Redirects a browser follows before it gives up.
MaxHops == 2

(***************************************************************************)
(* Text helpers                                                            *)
(***************************************************************************)
HTTP == <<"h", "t", "t", "p">>
SEP == <<":", "/", "/">>
DOT_XML == <<".", "x", "m", "l">>
DOT_HTML == <<".", "h", "t", "m", "l">>
DOT_PDF == <<".", "p", "d", "f">>

\* str.startswith
startswith(s, prefix) ==
    /\ Len(s) >= Len(prefix)
    /\ SubSeq(s, 1, Len(prefix)) = prefix

\* Index of the first character of s, at or after position from, that is in
\* chars; Len(s) + 1 when there is none.
RECURSIVE find_any(_, _, _)
find_any(s, chars, from) ==
    IF from > Len(s) THEN Len(s) + 1
    ELSE IF s[from] \in chars THEN from
    ELSE find_any(s, chars, from + 1)

\* str.strip: leading and trailing whitespace removed.
RECURSIVE lstrip(_)
lstrip(s) == IF s # <<>> /\ Head(s) = " " THEN lstrip(Tail(s)) ELSE s

RECURSIVE rstrip(_)
rstrip(s) ==
    IF s # <<>> /\ s[Len(s)] = " " THEN rstrip(SubSeq(s, 1, Len(s) - 1)) ELSE s

strip(s) == rstrip(lstrip(s))

\* The characters urllib.parse accepts in a scheme, among those the model's
\* addresses are written with.
scheme_chars ==
    {"a", "d", "f", "h", "l", "m", "p", "s", "t", "x",
     "1", "2", "3", "+", "-", "."}

scheme_letters == {"a", "d", "f", "h", "l", "m", "p", "s", "t", "x"}

\* s cut at position i, the character at i dropped: (before, after).
split_at(s, i) == <<SubSeq(s, 1, i - 1), SubSeq(s, i + 1, Len(s))>>

\* urlsplit, first step: (scheme, rest). colon is the position of the first
\* ":"; what precedes it is a scheme when it is made of scheme characters
\* and starts with a letter.
split_scheme(url, colon) ==
    IF /\ 1 < colon
       /\ colon <= Len(url)
       /\ url[1] \in scheme_letters
       /\ \A i \in 1..(colon - 1) : url[i] \in scheme_chars
        THEN split_at(url, colon)
    ELSE <<<<>>, url>>

\* urlsplit, second step: (netloc, rest). After "//" the netloc runs up to
\* delim, the position of the first of "/", "?", "#".
split_netloc(rest, delim) ==
    IF startswith(rest, <<"/", "/">>)
        THEN <<SubSeq(rest, 3, delim - 1), SubSeq(rest, delim, Len(rest))>>
    ELSE <<<<>>, rest>>

parse_result(scheme, netloc, path_query, fragment) ==
    [scheme |-> scheme, netloc |-> netloc, path |-> path_query[1],
     query |-> path_query[2], fragment |-> fragment]

\* urlsplit, last steps: the fragment after the first "#", then the query
\* after the first "?"; what is left is the path.
split_query(scheme, netloc, rest_fragment) ==
    parse_result(scheme, netloc,
                 split_at(rest_fragment[1],
                          find_any(rest_fragment[1], {"?"}, 1)),
                 rest_fragment[2])

split_fragment(scheme, netloc_rest) ==
    split_query(scheme, netloc_rest[1],
                split_at(netloc_rest[2], find_any(netloc_rest[2], {"#"}, 1)))

split_authority(scheme_rest) ==
    split_fragment(scheme_rest[1],
                   split_netloc(scheme_rest[2],
                                find_any(scheme_rest[2], {"/", "?", "#"}, 3)))

\* urllib.parse.urlparse
urlparse(url) == split_authority(split_scheme(url, find_any(url, {":"}, 1)))

(***************************************************************************)
(* The storage backend as seen through requests.get                        *)
(***************************************************************************)
\* Payloads a response can carry: a well-formed XML document whose texts
\* are in pt and en, a UTF-8 text that is no XML document (an HTML
\* fragment, a truncated download), and bytes that are not UTF-8.
Payloads == {"xml_pt_en", "text", "not_utf8"}

Statuses == {200, 304, 399, 400, 404, 499, 500, 503, 599, 600}

NetworkExceptions == {"ConnectionError", "Timeout", "TooManyRedirects"}

\* What the network can answer to one well-formed GET: an exception of
\* requests, or a response. The body of an error response is never read.
NetOutcomes ==
    [exc : NetworkExceptions, status : {0}, content : {""}]
    \cup [exc : {""}, status : {s \in Statuses : s < 400 \/ s >= 600},
          content : Payloads]
    \cup [exc : {""}, status : {s \in Statuses : 400 <= s /\ s < 600},
          content : {""}]

Raise(exc) == [exc |-> exc, status |-> 0, content |-> ""]

\* requests.get on a parsed address: an address without scheme, with a
\* scheme other than http(s), or without host never reaches the network.
send(parsed, net) ==
    IF parsed.scheme = <<>> THEN Raise("MissingSchema")
    ELSE IF parsed.scheme \notin {HTTP, HTTP \o <<"s">>} THEN Raise("InvalidSchema")
    ELSE IF parsed.netloc = <<>> THEN Raise("InvalidURL")
    ELSE net

requests_get(url, net) == send(urlparse(url), net)

\* Response.raise_for_status: HTTPError for a client or server error status.
raise_for_status(status) == 400 <= status /\ status < 600

\* The result of a call: the exception it raised ("" for none) or its value.
Raised(exc) == [raised |-> exc, content |-> ""]
Returned(content) == [raised |-> "", content |-> content]

\* classify with the upper limit of the client errors off by one.
classify_inclusive(response) ==
    IF response.exc \in {"ConnectionError", "Timeout"}
        THEN Raised("RetryableError")
    ELSE IF response.exc \in {"InvalidSchema", "MissingSchema", "InvalidURL"}
        THEN Raised("NonRetryableError")
    ELSE IF response.exc # "" THEN Raised(response.exc)
    ELSE IF raise_for_status(response.status)
        THEN IF 400 <= response.status /\ response.status <= 500
                 THEN Raised("NonRetryableError")
             ELSE IF 500 <= response.status /\ response.status < 600
                 THEN Raised("RetryableError")
             ELSE Raised("HTTPError")
    ELSE Returned(response.content)

\* fetch_data once requests.get has answered.
classify(response) ==
    IF response.exc \in {"ConnectionError", "Timeout"}
        THEN Raised("RetryableError")
    ELSE IF response.exc \in {"InvalidSchema", "MissingSchema", "InvalidURL"}
        THEN Raised("NonRetryableError")
    ELSE IF response.exc # "" THEN Raised(response.exc)
    ELSE IF raise_for_status(response.status)
        THEN IF 400 <= response.status /\ response.status < 500
                 THEN Raised("NonRetryableError")
             ELSE IF 500 <= response.status /\ response.status < 600
                 THEN Raised("RetryableError")
             ELSE Raised("HTTPError")
    ELSE Returned(response.content)

fetch_data(url, net) == classify(requests_get(url, net))

\* One outbound call of a request: the address, what requests.get answered
\* and what fetch_data made of it.
FetchRecord(url, net) ==
    [url |-> url, reply |-> requests_get(url, net), result |-> fetch_data(url, net)]

(***************************************************************************)
(* Configuration and articles                                              *)
(***************************************************************************)
BaseUri == HTTP \o SEP \o <<"s">>

MediaPath == <<"/", "m", "/">>

\* The keys of LANGUAGES.
Languages == {"pt", "en", "es"}

Configs ==
    [SSM_XML_URL_REWRITE : BOOLEAN, SSM_BASE_URI : {BaseUri},
     SSM_MEDIA_PATH : {MediaPath}, LANGUAGES : {Languages},
     BABEL_DEFAULT_LOCALE : {"pt"}]

\* Raw stored addresses: absolute on a foreign host, relative, absolute with
\* a scheme requests has no adapter for, and relative with a first
\* component that starts with the letters http and with a query.
XmlRefs ==
    {<<>>,
     HTTP \o SEP \o <<"f", "/", "a">> \o DOT_XML,
     <<"/", "a">> \o DOT_XML,
     <<"f", "t", "p">> \o SEP \o <<"f", "/", "a">> \o DOT_XML,
     HTTP \o <<"d", "/", "a">> \o DOT_XML \o <<"?", "x">>}

\* The address of the descriptor stored at position i of a list.
Addr(i, ext) ==
    IF i % 2 = 1 THEN HTTP \o SEP \o <<"f", "/", IF i = 1 THEN "1" ELSE "3">> \o ext
    ELSE <<"/", "2">> \o ext

DescriptorLangs == {"pt", "en"}

DescriptorLists(ext) ==
    UNION {
        {[i \in 1..n |-> [lang |-> ls[i], url |-> Addr(i, ext)]] :
            ls \in [1..n -> DescriptorLangs]}
        : n \in 0..MaxDescriptors}

LanguageLists == {<<>>, <<"en">>, <<"EN">>, <<"pt", "en">>}

Publicity == [article : BOOLEAN, issue : BOOLEAN, journal : BOOLEAN]

\* Articles with a text (XML reference and/or HTML descriptors) and no
\* PDF, and articles with PDF descriptors only.
Articles ==
    [original_language : {"pt", "en"}, languages : LanguageLists,
     xml : XmlRefs, htmls : DescriptorLists(DOT_HTML), pdfs : {<<>>},
     is_public : Publicity]
    \cup
    [original_language : {"pt", "en"}, languages : LanguageLists,
     xml : {<<>>}, htmls : {<<>>}, pdfs : DescriptorLists(DOT_PDF),
     is_public : Publicity]

\* lang_code of the route: empty (the default) or two word characters.
LangCodes == {"", "pt", "en", "EN", "fr"}

VARIABLES
    config,      \* current_app.config
    article,     \* the article the content store holds
    view,        \* the view function handling the current request, or "idle"
    segments,    \* url_seg_issue and url_seg_article of the request's URL
    lang_code,   \* lang_code of the request's URL
    calls,       \* lang of each call of render_html in this request
    branches,    \* rendering paths executed in this request
    selected,    \* descriptors selected in this request
    fetches,     \* outbound calls of fetch_data in this request
    rendered,    \* what render_html returned in this request
    failure,     \* the exception render_html raised in this request, or ""
    log,         \* records written to the module's logger in this request
    response,    \* the response of the current request
    session,     \* flask.session of the visitor
    cache,       \* webapp.cache: its backend and what it stores
    hits,        \* cache keys this request was answered from
    accept,      \* Accept-Language of the visitor's browser, best first
    cookie,      \* the cookie 'language' the visitor's browser holds
    hops         \* redirects the browser followed to make this request

vars ==
    <<config, article, view, segments, lang_code, calls, branches, selected,
      fetches, rendered, failure, log, response, session, cache, hits,
      accept, cookie, hops>>

(***************************************************************************)
(* Rendering                                                               *)
(***************************************************************************)
normalize_ssm_url(cfg, url) ==
    IF startswith(url, HTTP)
        THEN cfg.SSM_BASE_URI \o urlparse(url).path
    ELSE cfg.SSM_BASE_URI \o url

NoHtml == [kind |-> "str", payload |-> "", lang |-> ""]

\* What a rendering function did: the exception it raised ("" for none),
\* its return value (html, text_languages), and what it went through.
Rendering(raised, html, text_languages, path, chosen, fetched) ==
    [raised |-> raised, html |-> html, text_languages |-> text_languages,
     branches |-> path, selected |-> chosen, fetches |-> fetched]

Failed(exc, path, chosen, fetched) ==
    Rendering(exc, NoHtml, <<>>, path, chosen, fetched)

\* etree.parse succeeds on a well-formed document only.
well_formed(payload) == payload = "xml_pt_en"

\* HTMLGenerator.languages: the languages the parsed document carries.
generator_languages(payload) ==
    IF payload = "xml_pt_en" THEN <<"pt", "en">> ELSE <<>>

\* bytes.decode('utf8') succeeds on UTF-8 bytes only.
is_utf8(payload) == payload # "not_utf8"

\* render_html_from_xml once fetch_data has answered.
html_from_xml(lang, fetched) ==
    IF fetched.result.raised # ""
        THEN Failed(fetched.result.raised, <<"xml">>, <<>>, <<fetched>>)
    ELSE IF ~well_formed(fetched.result.content)
        THEN Failed("XMLSyntaxError", <<"xml">>, <<>>, <<fetched>>)
    ELSE Rendering("",
                   [kind |-> "soup", payload |-> fetched.result.content,
                    lang |-> lang],
                   generator_languages(fetched.result.content),
                   <<"xml">>, <<>>, <<fetched>>)

\* render_html_from_xml reading the rewrite setting the wrong way round.
render_html_from_xml_inverted(cfg, art, lang, net) ==
    html_from_xml(lang,
                  FetchRecord(IF ~cfg.SSM_XML_URL_REWRITE
                                  THEN normalize_ssm_url(cfg, art.xml)
                              ELSE art.xml,
                              net))

render_html_from_xml(cfg, art, lang, net) ==
    html_from_xml(lang,
                  FetchRecord(IF cfg.SSM_XML_URL_REWRITE
                                  THEN normalize_ssm_url(cfg, art.xml)
                              ELSE art.xml,
                              net))

\* Language codes compared without regard to case.
lower(lang) == IF lang = "EN" THEN "en" ELSE lang

\* matching comparing the language codes case-insensitively.
matching_any_case(descriptors, lang) ==
    SelectSeq(descriptors, LAMBDA d : lower(d.lang) = lower(lang))

\* [d for d in descriptors if d['lang'] == lang]
matching(descriptors, lang) ==
    SelectSeq(descriptors, LAMBDA d : d.lang = lang)

\* html_from_html reporting the language of the selected descriptor only.
html_from_html_own_language(art, chosen, fetched) ==
    IF fetched.result.raised # ""
        THEN Failed(fetched.result.raised, <<"html">>, <<chosen>>, <<fetched>>)
    ELSE IF ~is_utf8(fetched.result.content)
        THEN Failed("UnicodeDecodeError", <<"html">>, <<chosen>>, <<fetched>>)
    ELSE Rendering("",
                   [kind |-> "str", payload |-> fetched.result.content,
                    lang |-> ""],
                   <<chosen.lang>>,
                   <<"html">>, <<chosen>>, <<fetched>>)

\* render_html_from_html once fetch_data has answered.
html_from_html(art, chosen, fetched) ==
    IF fetched.result.raised # ""
        THEN Failed(fetched.result.raised, <<"html">>, <<chosen>>, <<fetched>>)
    ELSE IF ~is_utf8(fetched.result.content)
        THEN Failed("UnicodeDecodeError", <<"html">>, <<chosen>>, <<fetched>>)
    ELSE Rendering("",
                   [kind |-> "str", payload |-> fetched.result.content,
                    lang |-> ""],
                   [i \in 1..Len(art.htmls) |-> art.htmls[i].lang],
                   <<"html">>, <<chosen>>, <<fetched>>)

\* render_html_from_html once the descriptors of the language are listed.
html_of_first(cfg, art, html_url, net) ==
    IF html_url = <<>> THEN Failed("ValueError", <<"html">>, <<>>, <<>>)
    ELSE html_from_html(art, html_url[1],
                        FetchRecord(normalize_ssm_url(cfg, html_url[1].url), net))

render_html_from_html(cfg, art, lang, net) ==
    html_of_first(cfg, art, matching(art.htmls, lang), net)

\* render_html trying the HTML descriptors before the XML reference.
render_html_descriptors_first(cfg, art, lang, net) ==
    IF art.htmls # <<>> THEN render_html_from_html(cfg, art, lang, net)
    ELSE IF art.xml # <<>> THEN render_html_from_xml(cfg, art, lang, net)
    ELSE Rendering("", NoHtml, <<>>, <<"none">>, <<>>, <<>>)

\* render_html raising for an article without representation.
render_html_or_raise(cfg, art, lang, net) ==
    IF art.xml # <<>> THEN render_html_from_xml(cfg, art, lang, net)
    ELSE IF art.htmls # <<>> THEN render_html_from_html(cfg, art, lang, net)
    ELSE Failed("ValueError", <<"none">>, <<>>, <<>>)

render_html(cfg, art, lang, net) ==
    IF art.xml # <<>> THEN render_html_from_xml(cfg, art, lang, net)
    ELSE IF art.htmls # <<>> THEN render_html_from_html(cfg, art, lang, net)
    ELSE Rendering("", NoHtml, <<>>, <<"none">>, <<>>, <<>>)

(***************************************************************************)
(* Views                                                                   *)
(***************************************************************************)
\* The url segments under which the content store holds the issue and the
\* article; every other segment finds nothing.
IssueSeg == "v1n1"
ArticleSeg == "a1"
IssueSegments == {IssueSeg, "unknown"}
ArticleSegments == {ArticleSeg, "unknown"}

NoResponse ==
    [status |-> 0, location |-> "", html |-> NoHtml, text_versions |-> <<>>,
     article_lang |-> "", pdf_urls_path |-> <<>>, content |-> "",
     mimetype |-> <<>>, entries |-> <<>>]

\* flask.abort(code), and an exception no handler of the view catches.
abort(code) == [NoResponse EXCEPT !.status = code]
server_error == [NoResponse EXCEPT !.status = 500]

\* redirect(url_for(endpoint, ..., lang_code=lang), code=301)
redirect(lang) == [NoResponse EXCEPT !.status = 301, !.location = lang]

\* What handling a request did: its response and what it went through.
Handled(resp, rendered_with, r) ==
    [response |-> resp, calls |-> rendered_with, branches |-> r.branches,
     selected |-> r.selected, fetches |-> r.fetches,
     rendered |-> IF rendered_with # <<>> /\ r.raised = ""
                      THEN <<[html |-> r.html, text_languages |-> r.text_languages]>>
                  ELSE <<>>,
     failure |-> r.raised, log |-> <<>>]

Nothing == Rendering("", NoHtml, <<>>, <<>>, <<>>, <<>>)

\* Python orders str by code point.
LangOrder == <<"EN", "en", "es", "fr", "pt">>

RECURSIVE sorted_from(_, _)
sorted_from(langs, k) ==
    IF k > Len(LangOrder) THEN <<>>
    ELSE SelectSeq(langs, LAMBDA l : l = LangOrder[k]) \o sorted_from(langs, k + 1)

\* sorted(...) of the (lang, name, url) triples, each named by its lang.
sorted(langs) == sorted_from(langs, 1)

\* resolve without the substitution of the original language.
resolve_as_requested(art, requested) == requested

\* resolve with the language of the session standing in for no lang_code.
resolve_from_session(art, requested) ==
    IF requested # "" THEN requested ELSE session.lang

\* lang_code or article.original_language
resolve(art, requested) ==
    IF requested # "" THEN requested ELSE art.original_language

\* invalid_language with the original language left out of the test.
invalid_language_unless_listed(art, lang) ==
    lang \notin {art.languages[i] : i \in 1..Len(art.languages)}

\* invalid_language checking only articles that list languages.
invalid_language_when_listed(art, lang) ==
    /\ art.languages # <<>>
    /\ lang \notin {art.languages[i] : i \in 1..Len(art.languages)}
                  \cup {art.original_language}

\* lang_code not in article.languages + [article.original_language]
invalid_language(art, lang) ==
    lang \notin {art.languages[i] : i \in 1..Len(art.languages)}
               \cup {art.original_language}

\* article_detail from the call of render_html on.
rendered_detail(art, lang, r) ==
    IF r.raised \in {"ValueError", "UnicodeDecodeError", "NonRetryableError",
                     "RetryableError"}
        THEN Handled(abort(404), <<lang>>, r)
    ELSE IF r.raised # "" THEN Handled(server_error, <<lang>>, r)
    ELSE Handled([NoResponse EXCEPT
                      !.status = 200,
                      !.html = r.html,
                      !.text_versions = sorted(r.text_languages),
                      !.article_lang = lang,
                      !.pdf_urls_path =
                          [i \in 1..Len(art.pdfs) |-> urlparse(art.pdfs[i].url).path]],
                 <<lang>>, r)

\* article_detail once the article is found and lang_code is resolved.
detail_of(cfg, art, lang, net) ==
    IF invalid_language(art, lang)
        THEN Handled(redirect(art.original_language), <<>>, Nothing)
    ELSE IF ~art.is_public.article THEN Handled(abort(404), <<>>, Nothing)
    ELSE IF ~art.is_public.issue THEN Handled(abort(404), <<>>, Nothing)
    ELSE IF ~art.is_public.journal THEN Handled(abort(404), <<>>, Nothing)
    ELSE rendered_detail(art, lang, render_html(cfg, art, lang, net))

article_detail(cfg, art, url_seg_issue, url_seg_article, requested, net) ==
    IF url_seg_issue # IssueSeg THEN Handled(abort(404), <<>>, Nothing)
    ELSE IF url_seg_article # ArticleSeg THEN Handled(abort(404), <<>>, Nothing)
    ELSE detail_of(cfg, art, resolve(art, requested), net)

\* Index of the last character c of s at or before position from, 0 when
\* there is none.
RECURSIVE rfind(_, _, _)
rfind(s, c, from) ==
    IF from = 0 THEN 0
    ELSE IF s[from] = c THEN from
    ELSE rfind(s, c, from - 1)

\* The type mimetypes knows for an extension; none is the empty tuple.
types_map(ext) ==
    IF ext = DOT_PDF THEN <<"application/pdf">>
    ELSE IF ext = DOT_HTML THEN <<"text/html">>
    ELSE IF ext = DOT_XML THEN <<"application/xml">>
    ELSE <<>>

\* posixpath.splitext(url)[1]: from the last "." of the last component.
splitext(url, dot, slash) ==
    IF dot > slash + 1 THEN SubSeq(url, dot, Len(url)) ELSE <<>>

\* mimetypes.guess_type(url)[0]
guess_type(url) ==
    types_map(splitext(url, rfind(url, ".", Len(url)), rfind(url, "/", Len(url))))

\* ssm_content asking again after a retryable failure.
ssm_content_retrying(mimetype, chosen, fetched) ==
    IF fetched.result.raised = "RetryableError"
        THEN Handled(abort(404), <<>>,
                     Rendering("", NoHtml, <<>>, <<>>, chosen, <<fetched, fetched>>))
    ELSE IF fetched.result.raised = "NonRetryableError"
        THEN Handled(abort(404), <<>>,
                     Rendering("", NoHtml, <<>>, <<>>, chosen, <<fetched>>))
    ELSE IF fetched.result.raised # ""
        THEN Handled(server_error, <<>>,
                     Rendering("", NoHtml, <<>>, <<>>, chosen, <<fetched>>))
    ELSE Handled([NoResponse EXCEPT
                      !.status = 200,
                      !.content = fetched.result.content,
                      !.mimetype = mimetype],
                 <<>>,
                 Rendering("", NoHtml, <<>>, <<>>, chosen, <<fetched>>))

\* get_content_from_ssm once fetch_data has answered.
ssm_content(mimetype, chosen, fetched) ==
    IF fetched.result.raised \in {"NonRetryableError", "RetryableError"}
        THEN Handled(abort(404), <<>>,
                     Rendering("", NoHtml, <<>>, <<>>, chosen, <<fetched>>))
    ELSE IF fetched.result.raised # ""
        THEN Handled(server_error, <<>>,
                     Rendering("", NoHtml, <<>>, <<>>, chosen, <<fetched>>))
    ELSE Handled([NoResponse EXCEPT
                      !.status = 200,
                      !.content = fetched.result.content,
                      !.mimetype = mimetype],
                 <<>>,
                 Rendering("", NoHtml, <<>>, <<>>, chosen, <<fetched>>))

\* get_content_from_ssm guessing the type before the address is stripped.
get_content_from_ssm_unstripped(cfg, resource_ssm_media_path, chosen, net) ==
    ssm_content(guess_type(cfg.SSM_BASE_URI \o resource_ssm_media_path),
                chosen,
                FetchRecord(strip(cfg.SSM_BASE_URI \o resource_ssm_media_path), net))

get_content_from_ssm(cfg, resource_ssm_media_path, chosen, net) ==
    ssm_content(guess_type(strip(cfg.SSM_BASE_URI \o resource_ssm_media_path)),
                chosen,
                FetchRecord(strip(cfg.SSM_BASE_URI \o resource_ssm_media_path), net))

\* pdf_of_only handing on the normalized address of the descriptor.
pdf_of_only_normalized(cfg, pdf_url, net) ==
    IF Len(pdf_url) # 1 THEN Handled(abort(404), <<>>, Nothing)
    ELSE IF urlparse(pdf_url[1].url).path = <<>>
        THEN Handled(abort(404), <<>>, [Nothing EXCEPT !.selected = pdf_url])
    ELSE get_content_from_ssm(cfg, normalize_ssm_url(cfg, pdf_url[1].url),
                              pdf_url, net)

\* article_detail_pdf once the PDF descriptors of the language are listed.
pdf_of_only(cfg, pdf_url, net) ==
    IF Len(pdf_url) # 1 THEN Handled(abort(404), <<>>, Nothing)
    ELSE IF urlparse(pdf_url[1].url).path = <<>>
        THEN Handled(abort(404), <<>>, [Nothing EXCEPT !.selected = pdf_url])
    ELSE get_content_from_ssm(cfg, urlparse(pdf_url[1].url).path, pdf_url, net)

\* pdf_of without the check of the journal.
pdf_of_any_journal(cfg, art, lang, net) ==
    IF invalid_language(art, lang)
        THEN Handled(redirect(art.original_language), <<>>, Nothing)
    ELSE IF ~art.is_public.article THEN Handled(abort(404), <<>>, Nothing)
    ELSE IF ~art.is_public.issue THEN Handled(abort(404), <<>>, Nothing)
    ELSE IF art.pdfs = <<>> THEN Handled(abort(404), <<>>, Nothing)
    ELSE pdf_of_only(cfg, matching(art.pdfs, lang), net)

\* article_detail_pdf once the article is found and lang_code is resolved.
pdf_of(cfg, art, lang, net) ==
    IF invalid_language(art, lang)
        THEN Handled(redirect(art.original_language), <<>>, Nothing)
    ELSE IF ~art.is_public.article THEN Handled(abort(404), <<>>, Nothing)
    ELSE IF ~art.is_public.issue THEN Handled(abort(404), <<>>, Nothing)
    ELSE IF ~art.is_public.journal THEN Handled(abort(404), <<>>, Nothing)
    ELSE IF art.pdfs = <<>> THEN Handled(abort(404), <<>>, Nothing)
    ELSE pdf_of_only(cfg, matching(art.pdfs, lang), net)

article_detail_pdf(cfg, art, url_seg_issue, url_seg_article, requested, net) ==
    IF url_seg_issue # IssueSeg THEN Handled(abort(404), <<>>, Nothing)
    ELSE IF url_seg_article # ArticleSeg THEN Handled(abort(404), <<>>, Nothing)
    ELSE pdf_of(cfg, art, resolve(art, requested), net)

\* Paths under SSM_MEDIA_PATH that a page asks for.
RelativeMediaPaths == {<<"1">> \o DOT_PDF, <<"x">>}

media_assets_proxy(cfg, relative_media_path, net) ==
    get_content_from_ssm(cfg, cfg.SSM_MEDIA_PATH \o relative_media_path, <<>>, net)

\* Values of the query argument resource_ssm_path, none being the empty
\* text; the last one is followed by a space.
ResourcePaths ==
    {<<>>, <<"/", "a">> \o DOT_XML, <<"/", "1">> \o DOT_PDF \o <<" ">>}

article_ssm_content_raw(cfg, resource_ssm_path, net) ==
    IF resource_ssm_path = <<>> THEN Handled(abort(404), <<>>, Nothing)
    ELSE get_content_from_ssm(cfg, resource_ssm_path, <<>>, net)

\* Journal segments and page names of the legacy site's addresses.
JournalSegments == {"j1", "old/j1"}

Pages ==
    {"iaboutj", "eaboutj", "paboutj", "eedboard", "iedboard", "pedboard",
     "iinstruc", "pinstruc", "einstruc", "isubscrp"}

\* page_anchor without the pages of the Portuguese edition.
page_anchor_without_p(page) ==
    IF page \in {"iaboutj", "eaboutj"} THEN "#about"
    ELSE IF page \in {"eedboard", "iedboard"} THEN "#editors"
    ELSE IF page \in {"iinstruc", "einstruc"} THEN "#instructions"
    ELSE ""

\* page_anchor.get(page, '')
page_anchor(page) ==
    IF page \in {"iaboutj", "eaboutj", "paboutj"} THEN "#about"
    ELSE IF page \in {"eedboard", "iedboard", "pedboard"} THEN "#editors"
    ELSE IF page \in {"iinstruc", "pinstruc", "einstruc"} THEN "#instructions"
    ELSE ""

\* url_for('main.about_journal', url_seg=url_seg)
about_journal_url(url_seg) == "/journal/" \o url_seg \o "/about/"

router_legacy_info_pages(journal_seg, page) ==
    Handled([NoResponse EXCEPT
                 !.status = 301,
                 !.location = about_journal_url(journal_seg) \o page_anchor(page)],
            <<>>, Nothing)

(***************************************************************************)
(* The locale                                                              *)
(***************************************************************************)
\* Python's None where a text is expected, and what Python takes for false.
None == "None"
falsy(x) == x \in {None, ""}

\* Accept-Language headers, the tags in the order the browser prefers them.
AcceptLanguages == {<<>>, <<"fr">>, <<"en">>, <<"fr", "es">>}

\* request.accept_languages.best_match(langs): the tag the browser prefers
\* among langs, None when it accepts none of them.
RECURSIVE best_match(_, _)
best_match(header, langs) ==
    IF header = <<>> THEN None
    ELSE IF Head(header) \in langs THEN Head(header)
    ELSE best_match(Tail(header), langs)

\* A session without the key 'lang'.
NoSession == <<>>

\* get_locale once 'lang' is a key of the session.
located(cfg, sess, lang_from_headers) ==
    IF falsy(lang_from_headers) /\ falsy(sess.lang)
        THEN [session |-> [lang |-> cfg.BABEL_DEFAULT_LOCALE],
              returned |-> cfg.BABEL_DEFAULT_LOCALE]
    ELSE [session |-> sess, returned |-> sess.lang]

\* get_locale taking the language of the headers whenever there is one.
get_locale_of_headers(cfg, sess, header) ==
    IF ~falsy(best_match(header, cfg.LANGUAGES))
        THEN located(cfg, [lang |-> best_match(header, cfg.LANGUAGES)],
                     best_match(header, cfg.LANGUAGES))
    ELSE IF "lang" \notin DOMAIN sess
        THEN located(cfg, [lang |-> None], None)
    ELSE located(cfg, sess, None)

\* get_locale: the session it leaves and the language it returns.
get_locale(cfg, sess, header) ==
    IF "lang" \notin DOMAIN sess
        THEN located(cfg, [lang |-> best_match(header, cfg.LANGUAGES)],
                     best_match(header, cfg.LANGUAGES))
    ELSE located(cfg, sess, best_match(header, cfg.LANGUAGES))

\* The session a view finds: the before_app_request hook
\* add_scielo_org_config_to_g has evaluated get_locale().
add_scielo_org_config_to_g(cfg, sess, header) == get_locale(cfg, sess, header).session

Begun == add_scielo_org_config_to_g(config, session, accept)

\* Arguments of set_locale's request: its Referer header and its query
\* argument hash, None when the request has none.
Referrers == {None, "/journal/j1/"}
Hashes == {None, "", "about"}
LocaleCodes == {"en", "es", "fr"}

\* redirect(location) with the default code.
found(location) == [NoResponse EXCEPT !.status = 302, !.location = location]

\* set_locale: the response and the session it leaves. Adding text to a
\* referrer that is None raises TypeError.
set_locale(cfg, sess, requested, referrer, hash) ==
    IF requested \notin cfg.LANGUAGES
        THEN [response |-> abort(400), session |-> sess]
    ELSE IF ~falsy(hash) /\ referrer = None
        THEN [response |-> server_error, session |-> sess]
    ELSE IF ~falsy(hash)
        THEN [response |-> found(referrer \o "#" \o hash),
              session |-> [lang |-> requested]]
    ELSE [response |-> found(referrer), session |-> [lang |-> requested]]

(***************************************************************************)
(* The legacy site's scielo.php                                            *)
(***************************************************************************)
\* Values of the query arguments script, pid and tlng, None for an argument
\* the request does not have; KnownPid is the pid (or ISSN) under which the
\* store finds the article, its issue and its journal.
allowed_scripts ==
    {"sci_serial", "sci_issuetoc", "sci_arttext", "sci_abstract", "sci_issues",
     "sci_pdf"}

Scripts == allowed_scripts \cup {None, "", "sci_home"}
KnownPid == "S1"
Pids == {None, "", KnownPid, "S9"}
Tlngs == {None, "en"}

\* The page a view renders from a template.
render_template(template) == [NoResponse EXCEPT !.status = 200, !.content = template]

\* redirect(location, 301)
moved(location) == [NoResponse EXCEPT !.status = 301, !.location = location]

\* The handler of a script ran and answered with h.
dispatched(name, h) == [h EXCEPT !.branches = <<name>>]

\* sci_serial and sci_issues: the journal of the ISSN and its page.
legacy_journal(art, pid, template) ==
    IF pid # KnownPid THEN Handled(abort(404), <<>>, Nothing)
    ELSE IF ~art.is_public.journal THEN Handled(abort(404), <<>>, Nothing)
    ELSE Handled(render_template(template), <<>>, Nothing)

\* sci_issuetoc: the issue of the pid and the address of its contents.
legacy_issue(art, pid) ==
    IF pid # KnownPid THEN Handled(abort(404), <<>>, Nothing)
    ELSE IF ~art.is_public.issue THEN Handled(abort(404), <<>>, Nothing)
    ELSE IF ~art.is_public.journal THEN Handled(abort(404), <<>>, Nothing)
    ELSE Handled(moved("/j/j1/i/" \o IssueSeg \o "/"), <<>>, Nothing)

\* The checks of sci_arttext, sci_abstract and sci_pdf on the article of the
\* pid, h being what the script answers for a public article.
legacy_article(art, pid, h) ==
    IF pid # KnownPid THEN Handled(abort(404), <<>>, Nothing)
    ELSE IF ~art.is_public.article THEN Handled(abort(404), <<>>, Nothing)
    ELSE IF ~art.is_public.issue THEN Handled(abort(404), <<>>, Nothing)
    ELSE IF ~art.is_public.journal THEN Handled(abort(404), <<>>, Nothing)
    ELSE h

\* router_legacy once script and pid are both given.
legacy_script(cfg, art, script_php, pid, tlng, net) ==
    IF script_php = "sci_serial"
        THEN dispatched("sci_serial",
                        legacy_journal(art, pid, "journal/detail.html"))
    ELSE IF script_php = "sci_issuetoc"
        THEN dispatched("sci_issuetoc", legacy_issue(art, pid))
    ELSE IF script_php \in {"sci_arttext", "sci_abstract"}
        THEN dispatched("sci_arttext",
                        legacy_article(art, pid,
                            Handled(redirect(IF tlng = None THEN "" ELSE tlng),
                                    <<>>, Nothing)))
    ELSE IF script_php = "sci_issues"
        THEN dispatched("sci_issues", legacy_journal(art, pid, "issue/grid.html"))
    ELSE IF script_php = "sci_pdf"
        THEN dispatched("sci_pdf",
                        legacy_article(art, pid,
                            article_detail_pdf(cfg, art, IssueSeg, ArticleSeg,
                                               "", net)))
    ELSE Handled(abort(400), <<>>, Nothing)

\* router_legacy refusing every script that comes without pid.
router_legacy_any_script(cfg, art, script_php, pid, tlng, net) ==
    IF script_php # None /\ falsy(pid)
        THEN Handled(abort(400), <<>>, Nothing)
    ELSE IF ~falsy(script_php) /\ ~falsy(pid)
        THEN legacy_script(cfg, art, script_php, pid, tlng, net)
    ELSE Handled(found("/"), <<>>, Nothing)

router_legacy(cfg, art, script_php, pid, tlng, net) ==
    IF script_php # None /\ script_php \in allowed_scripts /\ falsy(pid)
        THEN Handled(abort(400), <<>>, Nothing)
    ELSE IF ~falsy(script_php) /\ ~falsy(pid)
        THEN legacy_script(cfg, art, script_php, pid, tlng, net)
    ELSE Handled(found("/"), <<>>, Nothing)

(***************************************************************************)
(* The journal's feed                                                      *)
(***************************************************************************)
\* The journal of the article, and the segments a feed is asked for.
JournalSeg == "j1"
FeedSegments == {JournalSeg, "j9"}

\* controllers.get_issues_by_jid(journal.jid, is_public=True) and
\* controllers.get_articles_by_iid(last_issue.iid, is_public=True) for the
\* journal, the issue and the article of the store.
public_issues(art) == IF art.is_public.issue THEN <<IssueSeg>> ELSE <<>>
public_articles(art) == IF art.is_public.article THEN <<art>> ELSE <<>>

\* The lang_code of the entry of an article: the language of the feed when
\* the article has it, else the article's original language.
entry_lang(a, feed_language) ==
    IF \E i \in DOMAIN a.languages : a.languages[i] = feed_language
        THEN feed_language
    ELSE a.original_language

\* journal_feed from the articles of the last issue on; the languages of the
\* model have two letters.
feed_of(articles, feed_language) ==
    [NoResponse EXCEPT
        !.status = 200,
        !.content = "atom",
        !.entries = [i \in DOMAIN articles |->
                        entry_lang(articles[i], lower(feed_language))]]

\* journal_feed for a public journal: last_issue is None when the journal
\* has no public issue, and None has no attribute iid.
feed_of_last(art, sess, issues) ==
    IF issues = <<>> THEN Handled(server_error, <<>>, Nothing)
    ELSE Handled(feed_of(public_articles(art), sess.lang), <<>>, Nothing)

journal_feed(art, sess, url_seg) ==
    IF url_seg # JournalSeg THEN Handled(abort(404), <<>>, Nothing)
    ELSE IF ~art.is_public.journal THEN Handled(abort(404), <<>>, Nothing)
    ELSE feed_of_last(art, sess, public_issues(art))

(***************************************************************************)
(* The cache                                                               *)
(***************************************************************************)
\* session['lang'] when a view runs: the before_app_request hook has called
\* get_locale, which leaves no session without a language.
SessionLangs == {"pt", "en"}

Sessions == [lang : SessionLangs]

\* The key of a request: its path and the language of the session, and its
\* query string for the second key function.
cache_key_with_lang(path) ==
    [prefix |-> "lang", path |-> path, lang |-> Begun.lang, qs |-> <<>>]

cache_key_with_lang_with_qs(path, qs) ==
    [prefix |-> "lang_qs", path |-> path, lang |-> Begun.lang, qs |-> qs]

\* The backends of the cache: one that stores nothing, one that stores.
NullCache == [type |-> "null", store |-> <<>>]
SimpleCache == [type |-> "simple", store |-> <<>>]

\* cache.get(key) found a value.
lookup(c, key) == c.type # "null" /\ key \in DOMAIN c.store

\* decorators storing what a function answered by abort as well.
decorators_of_any(keys, h) ==
    IF h.fetches = <<>> THEN {keys[1]}
    ELSE {keys[i] : i \in DOMAIN keys}

\* The decorators whose function returned: the view's own when it returned a
\* response, and get_content_from_ssm's when it was called and returned.
decorators(keys, h) ==
    IF h.response.status \notin {200, 301} THEN {}
    ELSE IF h.fetches = <<>> THEN {keys[1]}
    ELSE {keys[i] : i \in DOMAIN keys}

\* cache.set(key, rv) for each key of written.
set(c, written, rv) ==
    IF c.type = "null" THEN c
    ELSE [c EXCEPT !.store = [k \in DOMAIN c.store \cup written |->
                                 IF k \in written THEN rv ELSE c.store[k]]]

(***************************************************************************)
(* The application                                                         *)
(***************************************************************************)
\* No request is being handled.
Idle ==
    /\ view = "idle"
    /\ segments = <<>>
    /\ lang_code = ""
    /\ calls = <<>>
    /\ branches = <<>>
    /\ selected = <<>>
    /\ fetches = <<>>
    /\ rendered = <<>>
    /\ failure = ""
    /\ log = <<>>
    /\ response = NoResponse
    /\ hits = <<>>
    /\ hops = 0

\* The portal of one visitor, its cache backend being the null backend.
Init ==
    /\ config \in Configs
    /\ article \in Articles
    /\ session = [lang |-> "pt"]
    /\ accept = <<>>
    /\ cookie = "pt"
    /\ cache = NullCache
    /\ Idle

\* A view function ran: the state holds what it did.
Ran(name, url_segs, requested, h) ==
    /\ view' = name
    /\ segments' = url_segs
    /\ lang_code' = requested
    /\ calls' = h.calls
    /\ branches' = h.branches
    /\ selected' = h.selected
    /\ fetches' = h.fetches
    /\ rendered' = h.rendered
    /\ failure' = h.failure
    /\ log' = h.log
    /\ response' = h.response
    /\ hops' = IF view = "idle" THEN 0 ELSE hops + 1
    /\ UNCHANGED <<config, article, accept, cookie>>

\* A request for a view under cache.cached, keys being the keys of the
\* decorators its call goes through, the view's own first.
Handle(name, url_segs, requested, keys, h) ==
    /\ session' = Begun
    /\ IF lookup(cache, keys[1])
           THEN /\ Ran(name, url_segs, requested,
                       Handled(cache.store[keys[1]], <<>>, Nothing))
                /\ hits' = <<keys[1]>>
                /\ UNCHANGED cache
       ELSE /\ Ran(name, url_segs, requested, h)
            /\ hits' = <<>>
            /\ cache' = set(cache, decorators(keys, h), h.response)

ArticleDetail ==
    /\ view = "idle"
    /\ \E url_seg_issue \in IssueSegments, url_seg_article \in ArticleSegments,
          requested \in LangCodes, net \in NetOutcomes :
           Handle("article_detail", <<url_seg_issue, url_seg_article>>, requested,
                  <<cache_key_with_lang(<<"article", url_seg_issue,
                                          url_seg_article, requested>>)>>,
                  article_detail(config, article, url_seg_issue, url_seg_article,
                                 requested, net))

ArticleDetailPdf ==
    /\ view = "idle"
    /\ \E url_seg_issue \in IssueSegments, url_seg_article \in ArticleSegments,
          requested \in LangCodes, net \in NetOutcomes :
           Handle("article_detail_pdf", <<url_seg_issue, url_seg_article>>, requested,
                  <<cache_key_with_lang(<<"pdf", url_seg_issue,
                                          url_seg_article, requested>>),
                    cache_key_with_lang_with_qs(<<"pdf", url_seg_issue,
                                                  url_seg_article, requested>>,
                                                <<>>)>>,
                  article_detail_pdf(config, article, url_seg_issue,
                                     url_seg_article, requested, net))

MediaAssetsProxy ==
    /\ view = "idle"
    /\ \E relative_media_path \in RelativeMediaPaths, net \in NetOutcomes :
           Handle("media_assets_proxy", <<relative_media_path>>, "",
                  <<cache_key_with_lang(<<"media", relative_media_path>>),
                    cache_key_with_lang_with_qs(<<"media", relative_media_path>>,
                                                <<>>)>>,
                  media_assets_proxy(config, relative_media_path, net))

ArticleSsmContentRaw ==
    /\ view = "idle"
    /\ \E resource_ssm_path \in ResourcePaths, net \in NetOutcomes :
           Handle("article_ssm_content_raw", <<resource_ssm_path>>, "",
                  <<cache_key_with_lang_with_qs(<<"raw">>, resource_ssm_path)>>,
                  article_ssm_content_raw(config, resource_ssm_path, net))

RouterLegacyInfoPages ==
    /\ view = "idle"
    /\ \E journal_seg \in JournalSegments, page \in Pages :
           /\ Ran("router_legacy_info_pages", <<journal_seg, page>>, "",
                  router_legacy_info_pages(journal_seg, page))
           /\ session' = Begun
           /\ hits' = <<>>
           /\ UNCHANGED cache

RouterLegacy ==
    /\ view = "idle"
    /\ \E script_php \in Scripts, pid \in Pids, tlng \in Tlngs,
          net \in NetOutcomes :
           Handle("router_legacy", <<script_php, pid, tlng>>, "",
                  <<cache_key_with_lang_with_qs(<<"scielo.php">>,
                                                <<script_php, pid, tlng>>)>>,
                  router_legacy(config, article, script_php, pid, tlng, net))

JournalFeed ==
    /\ view = "idle"
    /\ \E url_seg \in FeedSegments :
           Handle("journal_feed", <<url_seg>>, "",
                  <<cache_key_with_lang(<<"feed", url_seg>>)>>,
                  journal_feed(article, Begun, url_seg))

SetLocale ==
    /\ view = "idle"
    /\ \E requested \in LocaleCodes, referrer \in Referrers, hash \in Hashes :
           /\ Ran("set_locale", <<referrer, hash>>, requested,
                  Handled(set_locale(config, Begun, requested, referrer,
                                     hash).response,
                          <<>>, Nothing))
           /\ session' = set_locale(config, Begun, requested, referrer,
                                    hash).session
           /\ hits' = <<>>
           /\ UNCHANGED cache

\* The visitor changes the languages of the browser.
Browser ==
    /\ view = "idle"
    /\ accept' \in AcceptLanguages \ {accept}
    /\ UNCHANGED <<config, article, view, segments, lang_code, calls, branches,
                   selected, fetches, rendered, failure, log, response, session,
                   cache, hits, cookie, hops>>

\* The browser follows the redirect of an article view: the same view with
\* the segments of the article and the lang_code of the Location.
FollowRedirect ==
    /\ view \in {"article_detail", "article_detail_pdf"}
    /\ response.status = 301
    /\ hops < MaxHops
    /\ \E net \in NetOutcomes :
           IF view = "article_detail"
               THEN Handle(view, <<IssueSeg, ArticleSeg>>, response.location,
                           <<cache_key_with_lang(<<"article", IssueSeg, ArticleSeg,
                                                   response.location>>)>>,
                           article_detail(config, article, IssueSeg, ArticleSeg,
                                          response.location, net))
           ELSE Handle(view, <<IssueSeg, ArticleSeg>>, response.location,
                       <<cache_key_with_lang(<<"pdf", IssueSeg, ArticleSeg,
                                               response.location>>),
                         cache_key_with_lang_with_qs(<<"pdf", IssueSeg, ArticleSeg,
                                                       response.location>>,
                                                     <<>>)>>,
                       article_detail_pdf(config, article, IssueSeg, ArticleSeg,
                                          response.location, net))

\* The response leaves and the context of the request is dropped.
add_language_code ==
    /\ view # "idle"
    /\ view' = "idle"
    /\ segments' = <<>>
    /\ lang_code' = ""
    /\ calls' = <<>>
    /\ branches' = <<>>
    /\ selected' = <<>>
    /\ fetches' = <<>>
    /\ rendered' = <<>>
    /\ failure' = ""
    /\ log' = <<>>
    /\ response' = NoResponse
    /\ hits' = <<>>
    /\ hops' = 0
    /\ session' = get_locale(config, session, accept).session
    /\ cookie' = get_locale(config, session, accept).returned
    /\ UNCHANGED <<config, article, cache, accept>>

Next ==
    \/ ArticleDetail
    \/ ArticleDetailPdf
    \/ FollowRedirect
    \/ add_language_code

Spec == Init /\ [][Next]_vars

\* The portal with every view of the storage backend's content and of the
\* legacy site's pages, for visitors with either session language and public
\* articles written in pt and listed in pt and en.
ContentArticles ==
    {a \in Articles :
        /\ a.original_language = "pt"
        /\ a.languages = <<"pt", "en">>
        /\ a.is_public = [article |-> TRUE, issue |-> TRUE, journal |-> TRUE]}

ContentInit ==
    /\ config \in Configs
    /\ article \in ContentArticles
    /\ session \in Sessions
    /\ accept = <<>>
    /\ cookie = session.lang
    /\ cache = NullCache
    /\ Idle

ContentNext ==
    \/ ArticleDetail
    \/ ArticleDetailPdf
    \/ FollowRedirect
    \/ MediaAssetsProxy
    \/ ArticleSsmContentRaw
    \/ RouterLegacyInfoPages
    \/ add_language_code

ContentSpec == ContentInit /\ [][ContentNext]_vars

\* The proxy views of the storage backend with a cache backend that stores.
CachedInit ==
    /\ config \in Configs
    /\ article \in {a \in ContentArticles :
                       a.xml = <<>> /\ a.htmls = <<>> /\ a.pdfs = <<>>}
    /\ session \in Sessions
    /\ accept = <<>>
    /\ cookie = session.lang
    /\ cache = SimpleCache
    /\ Idle

CachedNext ==
    \/ MediaAssetsProxy
    \/ ArticleSsmContentRaw
    \/ add_language_code

CachedSpec == CachedInit /\ [][CachedNext]_vars

\* The portal for a new visitor, whose session has no language yet, with
\* the views of the locale, of the legacy site's scielo.php and of the
\* journal's feed, over articles written in pt, listed in pt and en, with at
\* most one PDF and public or not.
SiteArticles ==
    {a \in Articles :
        /\ a.original_language = "pt"
        /\ a.languages = <<"pt", "en">>
        /\ a.xml = <<>>
        /\ a.htmls = <<>>
        /\ Len(a.pdfs) <= 1}

SiteInit ==
    /\ config \in Configs
    /\ article \in SiteArticles
    /\ session = NoSession
    /\ accept \in AcceptLanguages
    /\ cookie = None
    /\ cache = NullCache
    /\ Idle

SiteNext ==
    \/ RouterLegacy
    \/ JournalFeed
    \/ SetLocale
    \/ Browser
    \/ add_language_code

SiteSpec == SiteInit /\ [][SiteNext]_vars

(***************************************************************************)
(* Properties                                                              *)
(***************************************************************************)
\* The language codes of an article: its original language and the
\* languages it is available in.
LanguagesOf(art) ==
    {art.original_language} \cup {art.languages[i] : i \in 1..Len(art.languages)}

\* C1: in article_detail, the language handed to render_html is always the
\* article's original language or one of the article's languages, whatever
\* lang_code was requested (the empty one included).
RenderedLanguageIsOfArticle ==
    view = "article_detail" =>
        \A i \in 1..Len(calls) : calls[i] \in LanguagesOf(article)

\* C1 witness: render_html was called with a requested language that is not
\* the original language.
RenderedRequestedLanguage ==
    /\ view = "article_detail"
    /\ calls = <<lang_code>>
    /\ lang_code # article.original_language

\* C3: every outbound call is classified: connection failure or timeout
\* raises RetryableError, a malformed address or unsupported scheme raises
\* NonRetryableError, a status in [400,500) raises NonRetryableError, a
\* status in [500,600) raises RetryableError, and a 200 answer returns the
\* body unchanged.
FetchOutcomesAreClassified ==
    \A i \in 1..Len(fetches) :
        LET reply == fetches[i].reply
            result == fetches[i].result
        IN  /\ reply.exc \in {"ConnectionError", "Timeout"}
                => result.raised = "RetryableError"
            /\ reply.exc \in {"MissingSchema", "InvalidSchema", "InvalidURL"}
                => result.raised = "NonRetryableError"
            /\ reply.exc = "" /\ 400 <= reply.status /\ reply.status < 500
                => result.raised = "NonRetryableError"
            /\ reply.exc = "" /\ 500 <= reply.status /\ reply.status < 600
                => result.raised = "RetryableError"
            /\ reply.exc = "" /\ reply.status = 200
                => result = [raised |-> "", content |-> reply.content]

\* C3 witness: the backend answered 500 and the call raised RetryableError.
FetchedServerError ==
    /\ fetches # <<>>
    /\ fetches[1].reply.exc = ""
    /\ fetches[1].reply.status = 500
    /\ fetches[1].result.raised = "RetryableError"

\* C8: render_html goes through exactly one path: the XML path when the
\* article has an XML reference (HTML descriptors or not), else the HTML
\* path when it has HTML descriptors, else the path of no representation.
RenderTakesOnePathInOrder ==
    calls # <<>> =>
        branches = IF article.xml # <<>> THEN <<"xml">>
                   ELSE IF article.htmls # <<>> THEN <<"html">>
                   ELSE <<"none">>

\* C8 witness: an article with an XML reference and HTML descriptors was
\* rendered through the XML path.
RenderedXmlBesideDescriptors ==
    /\ calls # <<>>
    /\ article.xml # <<>>
    /\ article.htmls # <<>>
    /\ branches = <<"xml">>

\* C2 as claimed: every failure of render_html inside article_detail, a
\* classified fetch failure or a failure to parse or decode the payload,
\* ends in a 404 response.
RenderFailureIsNotFound ==
    /\ view = "article_detail"
    /\ failure \in {"RetryableError", "NonRetryableError", "XMLSyntaxError",
                    "UnicodeDecodeError"}
    => response.status = 404

\* C4 as claimed: an answer whose status is neither a success status nor in
\* [400,600) makes fetch_data raise an unclassified failure.
UnexpectedStatusIsRaised ==
    \A i \in 1..Len(fetches) :
        /\ fetches[i].reply.exc = ""
        /\ fetches[i].reply.status \notin 200..299
        /\ ~(400 <= fetches[i].reply.status /\ fetches[i].reply.status < 600)
        => fetches[i].result.raised
               \notin {"", "RetryableError", "NonRetryableError"}

\* The language the request asks for, the original language standing in for
\* an empty lang_code.
RequestedLanguage ==
    IF lang_code # "" THEN lang_code ELSE article.original_language

\* The request found its article, asked for a language of the article, and
\* article, issue and journal are public: view v went on to the content.
ReachedContent(v) ==
    /\ view = v
    /\ segments = <<IssueSeg, ArticleSeg>>
    /\ RequestedLanguage \in LanguagesOf(article)
    /\ article.is_public.article
    /\ article.is_public.issue
    /\ article.is_public.journal

\* Where the descriptors of a language are in a list, and the first of them.
Positions(descriptors, lang) ==
    {i \in 1..Len(descriptors) : descriptors[i].lang = lang}

FirstOf(descriptors, lang) ==
    descriptors[CHOOSE i \in Positions(descriptors, lang) :
                    \A j \in Positions(descriptors, lang) : i <= j]

Outcome ==
    [response |-> response, calls |-> calls, branches |-> branches,
     selected |-> selected, fetches |-> fetches, rendered |-> rendered,
     failure |-> failure, log |-> log]

\* What view v does for lang_code l on the current request's segments.
OutcomeFor(v, l, net) ==
    IF v = "article_detail"
        THEN article_detail(config, article, segments[1], segments[2], l, net)
    ELSE article_detail_pdf(config, article, segments[1], segments[2], l, net)

\* C6: a request with an empty lang_code selects and answers as the request
\* with lang_code = the article's original language does, and conversely.
EmptyLanguageIsOriginalLanguage ==
    /\ view # "idle" /\ lang_code = ""
       => \E net \in NetOutcomes :
              Outcome = OutcomeFor(view, article.original_language, net)
    /\ view # "idle" /\ lang_code = article.original_language
       => \E net \in NetOutcomes : Outcome = OutcomeFor(view, "", net)

\* C6 witness: a request with an empty lang_code selected the descriptor of
\* the original language and was answered with its content.
EmptyLanguageSelectedOriginal ==
    /\ view # "idle"
    /\ lang_code = ""
    /\ Len(selected) = 1
    /\ selected[1].lang = article.original_language
    /\ response.status = 200

\* C7 as claimed: with several descriptors of the requested language, the
\* first in stored order is selected and a warning is logged, among the HTML
\* descriptors and among the PDF descriptors.
DuplicatesSelectFirstAndWarn ==
    /\ /\ ReachedContent("article_detail")
       /\ article.xml = <<>>
       /\ Cardinality(Positions(article.htmls, RequestedLanguage)) > 1
       => selected = <<FirstOf(article.htmls, RequestedLanguage)>> /\ log # <<>>
    /\ /\ ReachedContent("article_detail_pdf")
       /\ Cardinality(Positions(article.pdfs, RequestedLanguage)) > 1
       => selected = <<FirstOf(article.pdfs, RequestedLanguage)>> /\ log # <<>>

\* C9 as claimed: on the XML path the address fetched is the normalized form
\* of article.xml, whatever the configuration.
XmlAddressIsAlwaysNormalized ==
    branches = <<"xml">> =>
        /\ Len(fetches) = 1
        /\ fetches[1].url = normalize_ssm_url(config, article.xml)

\* C9 amended: on the XML path exactly one address is fetched: the normalized
\* form of article.xml, which starts with the configured base URI, when
\* SSM_XML_URL_REWRITE is set, and article.xml as stored when it is not.
XmlAddressFollowsRewriteSetting ==
    branches = <<"xml">> =>
        /\ Len(fetches) = 1
        /\ config.SSM_XML_URL_REWRITE
            => /\ fetches[1].url = normalize_ssm_url(config, article.xml)
               /\ startswith(fetches[1].url, config.SSM_BASE_URI)
        /\ ~config.SSM_XML_URL_REWRITE => fetches[1].url = article.xml

\* C9 witness: with SSM_XML_URL_REWRITE unset, article.xml was fetched as
\* stored, which is not its normalized form.
XmlFetchedAsStored ==
    /\ branches = <<"xml">>
    /\ ~config.SSM_XML_URL_REWRITE
    /\ fetches[1].url = article.xml
    /\ article.xml # normalize_ssm_url(config, article.xml)

\* C10: on the HTML path, when a descriptor has the requested language,
\* exactly one address is fetched, the normalized address of the first such
\* descriptor, and the language list returned is the languages of all the
\* article's HTML descriptors in stored order.
HtmlPathFetchesDescriptorOfLanguage ==
    /\ view = "article_detail"
    /\ branches = <<"html">>
    /\ Positions(article.htmls, calls[1]) # {}
    => /\ Len(fetches) = 1
       /\ fetches[1].url =
              normalize_ssm_url(config, FirstOf(article.htmls, calls[1]).url)
       /\ rendered # <<>>
           => rendered[1].text_languages =
                  [i \in 1..Len(article.htmls) |-> article.htmls[i].lang]

\* C10 witness: descriptors in pt and en, en requested: the address of the
\* second descriptor was fetched and the languages returned are pt, en.
HtmlRenderedSecondDescriptor ==
    /\ view = "article_detail"
    /\ branches = <<"html">>
    /\ Len(article.htmls) = 2
    /\ article.htmls[1].lang = "pt"
    /\ article.htmls[2].lang = "en"
    /\ calls = <<"en">>
    /\ Len(fetches) = 1
    /\ fetches[1].url = normalize_ssm_url(config, article.htmls[2].url)
    /\ rendered # <<>>
    /\ rendered[1].text_languages = <<"pt", "en">>

\* C11: for an article with no XML reference and no HTML descriptors,
\* render_html returns the empty fragment and the empty language list,
\* raising nothing and fetching nothing, and article_detail answers with the
\* article page, its body and its text_versions empty, not with 404.
NoRepresentationRendersEmptyPage ==
    /\ ReachedContent("article_detail")
    /\ article.xml = <<>>
    /\ article.htmls = <<>>
    => /\ branches = <<"none">>
       /\ failure = ""
       /\ fetches = <<>>
       /\ rendered = <<[html |-> [kind |-> "str", payload |-> "", lang |-> ""],
                        text_languages |-> <<>>]>>
       /\ response.status = 200
       /\ response.html = [kind |-> "str", payload |-> "", lang |-> ""]
       /\ response.text_versions = <<>>

\* C11 witness: an article with PDF descriptors only was answered with an
\* empty article page.
RenderedArticleWithoutText ==
    /\ ReachedContent("article_detail")
    /\ article.xml = <<>>
    /\ article.htmls = <<>>
    /\ article.pdfs # <<>>
    /\ branches = <<"none">>
    /\ response.status = 200

\* C12 as claimed: an absolute address (scheme and host) is normalized to
\* the configured base URI followed by its path, everything else dropped.
AbsoluteAddressKeepsOnlyPath ==
    /\ branches = <<"xml">>
    /\ config.SSM_XML_URL_REWRITE
    /\ urlparse(article.xml).scheme # <<>>
    /\ urlparse(article.xml).netloc # <<>>
    => fetches[1].url = config.SSM_BASE_URI \o urlparse(article.xml).path

\* C13 as claimed: a relative address (no scheme, no host) is normalized to
\* the configured base URI followed by the address, unchanged.
RelativeAddressIsAppended ==
    /\ branches = <<"xml">>
    /\ config.SSM_XML_URL_REWRITE
    /\ urlparse(article.xml).scheme = <<>>
    /\ urlparse(article.xml).netloc = <<>>
    => fetches[1].url = config.SSM_BASE_URI \o article.xml

\* The stored address (or the media path) the request's fetch started from.
RawAddress ==
    IF view \in {"media_assets_proxy", "article_ssm_content_raw"} THEN segments[1]
    ELSE IF branches = <<"xml">> THEN article.xml
    ELSE selected[1].url

\* What the base URI is put in front of: the address, its path, or the
\* address under the media path.
Remainders(raw) ==
    IF view = "media_assets_proxy" THEN {config.SSM_MEDIA_PATH \o raw}
    ELSE IF view = "article_detail_pdf" THEN {urlparse(raw).path}
    ELSE IF view = "article_ssm_content_raw" THEN {raw}
    ELSE {raw, urlparse(raw).path}

\* Number of places of url at or after position i where part starts.
RECURSIVE count(_, _, _)
count(url, part, i) ==
    IF i + Len(part) - 1 > Len(url) THEN 0
    ELSE (IF SubSeq(url, i, i + Len(part) - 1) = part THEN 1 ELSE 0)
         + count(url, part, i + 1)

PrependedOnce(url, raw) ==
    /\ \E rest \in Remainders(raw) : url = strip(config.SSM_BASE_URI \o rest)
    /\ count(url, config.SSM_BASE_URI, 1) = 1

\* C14 as claimed: whatever the configuration, every fetched address is the
\* base URI put once in front of what the raw address gives.
BaseUriIsPrependedOnce ==
    \A i \in DOMAIN fetches : PrependedOnce(fetches[i].url, RawAddress)

\* C14: every fetched address is the base URI put once in front of what the
\* raw address gives (a stored XML, HTML or PDF address, a media path), and
\* holds the base URI once, except article.xml without SSM_XML_URL_REWRITE,
\* which is fetched as stored, the base URI never put in front of it.
BaseUriIsPrependedAtMostOnce ==
    \A i \in DOMAIN fetches :
        IF branches = <<"xml">> /\ ~config.SSM_XML_URL_REWRITE
            THEN fetches[i].url = article.xml
        ELSE PrependedOnce(fetches[i].url, RawAddress)

\* C14 witness: a PDF was fetched whose descriptor holds an absolute address
\* on another host.
FetchedPdfStoredWithForeignHost ==
    /\ view = "article_detail_pdf"
    /\ fetches # <<>>
    /\ urlparse(selected[1].url).netloc = <<"f">>
    /\ fetches[1].url = config.SSM_BASE_URI \o urlparse(selected[1].url).path

\* C15: a request calls fetch_data at most once, each call of fetch_data is
\* one outbound request whose outcome is the call's outcome, and a call that
\* raised RetryableError or NonRetryableError is the request's only one.
FetchesOnceWithoutRetry ==
    /\ Len(fetches) <= 1
    /\ \A i \in DOMAIN fetches :
          /\ fetches[i].reply \in NetOutcomes \cup {Raise("MissingSchema"),
                                                    Raise("InvalidSchema"),
                                                    Raise("InvalidURL")}
          /\ fetches[i].result = classify(fetches[i].reply)
          /\ fetches[i].result.raised \in {"RetryableError", "NonRetryableError"}
             => Len(fetches) = 1 /\ response.status = 404

\* C15 witness: the backend failed with a retryable error under the media
\* proxy, and the request ended after that one fetch.
RetryableFailureEndedRequest ==
    /\ view = "media_assets_proxy"
    /\ Len(fetches) = 1
    /\ fetches[1].result.raised = "RetryableError"
    /\ response.status = 404

\* The text ends with the given ending.
endswith(s, ending) ==
    /\ Len(s) >= Len(ending)
    /\ SubSeq(s, Len(s) - Len(ending) + 1, Len(s)) = ending

\* The type that goes with the ending of an address.
TypeOfExtension(url) ==
    IF endswith(url, DOT_PDF) THEN <<"application/pdf">>
    ELSE IF endswith(url, DOT_XML) THEN <<"application/xml">>
    ELSE IF endswith(url, DOT_HTML) THEN <<"text/html">>
    ELSE <<>>

ProxyViews == {"article_detail_pdf", "media_assets_proxy", "article_ssm_content_raw"}

\* C16: when get_content_from_ssm fetched and the fetch succeeded, the answer
\* is 200 with the bytes the backend sent and the type that goes with the
\* extension of the address fetched; when the fetch raised RetryableError or
\* NonRetryableError, the answer is 404.
ProxyAnswersBytesOrNotFound ==
    view \in ProxyViews /\ fetches # <<>>
    => /\ fetches[1].result.raised \in {"RetryableError", "NonRetryableError"}
          => response.status = 404
       /\ fetches[1].result.raised = ""
          => /\ response.status = 200
             /\ response.content = fetches[1].reply.content
             /\ response.mimetype = TypeOfExtension(fetches[1].url)

\* C16 witness: a resource path followed by a space was fetched, and the
\* answer carries the backend's bytes as a PDF.
ProxiedPdfOfPaddedPath ==
    /\ view = "article_ssm_content_raw"
    /\ segments[1] = <<"/", "1">> \o DOT_PDF \o <<" ">>
    /\ fetches[1].reply.content = "text"
    /\ response.status = 200
    /\ response.content = "text"
    /\ response.mimetype = <<"application/pdf">>

RequestKey ==
    IF view = "media_assets_proxy"
        THEN cache_key_with_lang(<<"media", segments[1]>>)
    ELSE cache_key_with_lang_with_qs(<<"raw">>, segments[1])

LanguageIsOfRequestNotOfSession ==
    view \in {"article_detail", "article_detail_pdf"}
    => /\ \A i \in DOMAIN calls : calls[i] = RequestedLanguage
       /\ \A i \in DOMAIN selected : selected[i].lang = RequestedLanguage

\* C18 witness: a visitor whose session language is another language of the
\* article got the text of the requested language, a descriptor selected.
RenderedAgainstSessionLanguage ==
    /\ view = "article_detail"
    /\ session.lang # RequestedLanguage
    /\ session.lang \in LanguagesOf(article)
    /\ calls = <<RequestedLanguage>>
    /\ selected # <<>>
    /\ selected[1].lang = RequestedLanguage
    /\ response.status = 200

\* C19: router_legacy_info_pages answers every request with a 301 redirect
\* to the about_journal address of the journal segment given, followed by
\* #about for the pages iaboutj, eaboutj and paboutj, by #editors for
\* iedboard, eedboard and pedboard, by #instructions for iinstruc, einstruc
\* and pinstruc, and by nothing for any other page.
InfoPagesRedirectToAboutJournal ==
    view = "router_legacy_info_pages"
    => /\ response.status = 301
       /\ fetches = <<>>
       /\ segments[2] \in {"iaboutj", "eaboutj", "paboutj"}
          => response.location = "/journal/" \o segments[1] \o "/about/#about"
       /\ segments[2] \in {"iedboard", "eedboard", "pedboard"}
          => response.location = "/journal/" \o segments[1] \o "/about/#editors"
       /\ segments[2] \in {"iinstruc", "einstruc", "pinstruc"}
          => response.location
                 = "/journal/" \o segments[1] \o "/about/#instructions"
       /\ segments[2] \notin {"iaboutj", "eaboutj", "paboutj",
                              "iedboard", "eedboard", "pedboard",
                              "iinstruc", "einstruc", "pinstruc"}
          => response.location = "/journal/" \o segments[1] \o "/about/"

\* C19 witness: the legacy page isubscrp was redirected to the journal's
\* about page without an anchor.
RedirectedPageWithoutAnchor ==
    /\ view = "router_legacy_info_pages"
    /\ segments = <<"j1", "isubscrp">>
    /\ response.status = 301
    /\ response.location = "/journal/j1/about/"

\* C20: article_detail and article_detail_pdf fetch nothing from the storage
\* backend, and render nothing, for an article that is not public or whose
\* issue or journal is not public: the request ends in 404 or in 301,
\* whatever language is requested.
NonPublicIsNeverFetched ==
    /\ view \in {"article_detail", "article_detail_pdf"}
    /\ \/ ~article.is_public.article
       \/ ~article.is_public.issue
       \/ ~article.is_public.journal
    => /\ fetches = <<>>
       /\ calls = <<>>
       /\ response.status \in {404, 301}

\* C20 witness: the PDF of a public article of a public issue was asked for
\* in a language it has a descriptor for, the journal not being public, and
\* the request ended in 404.
RefusedPdfOfNonPublicJournal ==
    /\ view = "article_detail_pdf"
    /\ segments = <<IssueSeg, ArticleSeg>>
    /\ article.is_public = [article |-> TRUE, issue |-> TRUE, journal |-> FALSE]
    /\ RequestedLanguage \in LanguagesOf(article)
    /\ Positions(article.pdfs, RequestedLanguage) # {}
    /\ fetches = <<>>
    /\ response.status = 404

\* C21: the redirect of article_detail and of article_detail_pdf for a
\* language the article does not have names the article's original language,
\* and the request the browser makes for that address is not redirected
\* again: no request that follows a redirect is answered with a redirect.
LanguageRedirectEndsAfterOneHop ==
    view \in {"article_detail", "article_detail_pdf"}
    => /\ response.status = 301 => response.location = article.original_language
       /\ hops >= 1 => /\ lang_code = article.original_language
                       /\ response.status # 301
       /\ hops <= 1

\* C21 witness: the browser followed the redirect of a request in a language
\* the article does not have, and was answered with the article's page.
FollowedRedirectToArticlePage ==
    /\ view = "article_detail"
    /\ hops = 1
    /\ lang_code = article.original_language
    /\ response.status = 200

\* C23 as claimed: set_locale with a lang_code that is no key of LANGUAGES
\* answers 400 and leaves the session as it found it, and with a key of
\* LANGUAGES it stores that code in session['lang'] and redirects.
SetLocaleStoresValidCode ==
    [][view = "idle" /\ view' = "set_locale"
       => /\ lang_code' \notin config.LANGUAGES
             => response'.status = 400 /\ session' = Begun
          /\ lang_code' \in config.LANGUAGES
             => /\ session' = [lang |-> lang_code']
                /\ response'.status = 302]_vars

\* The session holds a language.
HasLanguage(sess) == "lang" \in DOMAIN sess /\ ~falsy(sess.lang)

\* C24: once session['lang'] holds a language, no step changes it except a
\* set_locale that redirects, which stores its lang_code, and get_locale
\* returns it (the after_request hook puts it in the cookie) whatever the
\* Accept-Language header is; and when a request finds a session without
\* language and a header with no language of LANGUAGES, the session gets
\* BABEL_DEFAULT_LOCALE, and get_locale returns it.
LocaleIsKeptOnceSet ==
    [][/\ HasLanguage(session)
          => \/ session' = session
             \/ /\ view' = "set_locale"
                /\ response'.status = 302
                /\ session' = [lang |-> lang_code']
       /\ view # "idle" /\ view' = "idle"
          => /\ cookie' = session'.lang
             /\ HasLanguage(session) => cookie' = session.lang
       /\ /\ ~HasLanguage(session)
          /\ best_match(accept, config.LANGUAGES) = None
          /\ view = "idle" /\ view' # "idle"
          /\ ~(view' = "set_locale" /\ response'.status = 302)
          => session' = [lang |-> config.BABEL_DEFAULT_LOCALE]]_vars

\* C24 witness: the session holds the language a set_locale stored, the
\* browser prefers another language of LANGUAGES, and get_locale, called
\* when the response left, returned the language of the session.
KeptLanguageAgainstHeaders ==
    /\ view = "idle"
    /\ session = [lang |-> "es"]
    /\ cookie = "es"
    /\ best_match(accept, config.LANGUAGES) = "en"

\* The request gave the argument a value that is not empty.
given(arg) == arg \notin {None, ""}

\* C22: router_legacy hands the request to the handler of a script only
\* when script is one of the six allowed values and pid is not empty; an
\* allowed script without pid is answered 400, a script outside the list
\* with a pid is answered 400, and every other request (no script, or an
\* unknown script without pid) is redirected to '/'.
LegacyRouterDispatchesAllowedScripts ==
    view = "router_legacy"
    => /\ branches # <<>>
          <=> segments[1] \in allowed_scripts /\ given(segments[2])
       /\ segments[1] \in allowed_scripts /\ ~given(segments[2])
          => response.status = 400
       /\ given(segments[1]) /\ segments[1] \notin allowed_scripts
          /\ given(segments[2])
          => response.status = 400
       /\ \/ ~given(segments[1])
          \/ segments[1] \notin allowed_scripts /\ ~given(segments[2])
          => response.status = 302 /\ response.location = "/"

\* C22 witness: an unknown script without pid was redirected to '/'.
RedirectedUnknownScriptHome ==
    /\ view = "router_legacy"
    /\ segments[1] = "sci_home"
    /\ segments[2] = None
    /\ branches = <<>>
    /\ response.status = 302
    /\ response.location = "/"

\* C25 as claimed: journal_feed answers a request for a public journal with
\* a feed, whether or not the journal has a public issue.
FeedOfPublicJournalCompletes ==
    /\ view = "journal_feed"
    /\ segments = <<JournalSeg>>
    /\ article.is_public.journal
    => /\ response.status = 200
       /\ response.content = "atom"

====
